---- MODULE Spec2Model ----
(***************************************************************************)
(* Model of TasksService (src/src/tasks/tasks.service.ts): the price        *)
(* crawlers run at application bootstrap and on cron schedules, the        *)
(* headless browsers they launch, and the values they send to the sheet.   *)
(*                                                                         *)
(* Text is a sequence of one-character strings.  A JavaScript value is a   *)
(* record with the fields k (kind), neg, i, f (a decimal number            *)
(* +-(i + f/10000)) and s (the text of a string).                          *)
(***************************************************************************)
EXTENDS Integers, Sequences, FiniteSets, TLC

----------------------------------------------------------------------------
(* Text helpers: String.prototype methods used by the service.             *)

Digits == <<"0", "1", "2", "3", "4", "5", "6", "7", "8", "9">>

IsDigit(c) == \E d \in 1..10 : Digits[d] = c

DigitVal(c) == (CHOOSE d \in 1..10 : Digits[d] = c) - 1

AllDigits(s) == \A k \in 1..Len(s) : IsDigit(s[k])

\* value of a run of decimal digits (0 for the empty run)
RECURSIVE DigitsVal(_)
DigitsVal(s) ==
  IF Len(s) = 0 THEN 0
  ELSE 10 * DigitsVal(SubSeq(s, 1, Len(s) - 1)) + DigitVal(s[Len(s)])

\* decimal digits of a natural number, as Number.prototype.toString prints them
RECURSIVE NatText(_)
NatText(n) ==
  IF n < 10 THEN <<Digits[n + 1]>>
  ELSE Append(NatText(n \div 10), Digits[(n % 10) + 1])

\* s.replace(/c/g, '') and s.replaceAll(c, ''): every occurrence of c removed
RemoveAll(s, c) == SelectSeq(s, LAMBDA x : x # c)

\* s.replace(c, ''): only the first occurrence of c removed
RemoveFirst(s, c) ==
  IF \E k \in 1..Len(s) : s[k] = c
  THEN LET p == CHOOSE k \in 1..Len(s) : s[k] = c /\ \A j \in 1..(k - 1) : s[j] # c
       IN  SubSeq(s, 1, p - 1) \o SubSeq(s, p + 1, Len(s))
  ELSE s

\* s.replaceAll(c, d): every occurrence of the character c replaced by d
ReplaceAll(s, c, d) == [k \in 1..Len(s) |-> IF s[k] = c THEN d ELSE s[k]]

\* s.trim(): leading and trailing blanks removed
Trim(s) ==
  IF \A k \in 1..Len(s) : s[k] = " " THEN <<>>
  ELSE LET a == CHOOSE k \in 1..Len(s) : s[k] # " " /\ \A j \in 1..(k - 1) : s[j] = " "
           b == CHOOSE k \in 1..Len(s) : s[k] # " " /\ \A j \in (k + 1)..Len(s) : s[j] = " "
       IN  SubSeq(s, a, b)

\* whether pat occurs in s as a substring: s.includes(pat), /pat/.test(s)
Includes(s, pat) ==
  \E k \in 1..(Len(s) - Len(pat) + 1) : SubSeq(s, k, k + Len(pat) - 1) = pat

\* s.replace(pat, ''): the first occurrence of the substring pat removed
RemoveFirstSub(s, pat) ==
  IF Includes(s, pat)
  THEN LET p == CHOOSE k \in 1..(Len(s) - Len(pat) + 1) :
                  /\ SubSeq(s, k, k + Len(pat) - 1) = pat
                  /\ \A j \in 1..(k - 1) : SubSeq(s, j, j + Len(pat) - 1) # pat
       IN  SubSeq(s, 1, p - 1) \o SubSeq(s, p + Len(pat), Len(s))
  ELSE s

----------------------------------------------------------------------------
(* JavaScript values.                                                      *)

Num(neg, i, f) == [k |-> "num", neg |-> neg, i |-> i, f |-> f, s |-> <<>>]
IntNum(n) == Num(FALSE, n, 0)
NaN       == [k |-> "nan",   neg |-> FALSE, i |-> 0, f |-> 0, s |-> <<>>]
Null      == [k |-> "null",  neg |-> FALSE, i |-> 0, f |-> 0, s |-> <<>>]
Undefined == [k |-> "undef", neg |-> FALSE, i |-> 0, f |-> 0, s |-> <<>>]
Str(t)    == [k |-> "str",   neg |-> FALSE, i |-> 0, f |-> 0, s |-> t]

IsZero(v) == v.k = "num" /\ v.i = 0 /\ v.f = 0

\* the truthiness test of `if (x)` and `!x`
Truthy(v) ==
  CASE v.k = "num" -> ~IsZero(v)
    [] v.k = "str" -> Len(v.s) > 0
    [] OTHER       -> FALSE

\* a StrDecimalLiteral without exponent: digits, optionally '.' and digits
IsDecimal(t) ==
  LET dots == {k \in 1..Len(t) : t[k] = "."}
  IN  /\ Len(t) > 0
      /\ Cardinality(dots) <= 1
      /\ \A k \in 1..Len(t) : IsDigit(t[k]) \/ t[k] = "."
      /\ \E k \in 1..Len(t) : IsDigit(t[k])

\* the value of an unsigned decimal literal, to four decimal places
DecimalValue(t, neg) ==
  LET dot == IF \E k \in 1..Len(t) : t[k] = "."
             THEN CHOOSE k \in 1..Len(t) : t[k] = "." ELSE Len(t) + 1
      ip  == SubSeq(t, 1, dot - 1)
      fp  == SubSeq(t, dot + 1, Len(t))
      f4  == SubSeq(fp \o <<"0", "0", "0", "0">>, 1, 4)
  IN  Num(neg /\ (DigitsVal(ip) # 0 \/ DigitsVal(f4) # 0), DigitsVal(ip), DigitsVal(f4))

\* Number(text): blanks trimmed, '' is 0, a signed decimal literal is its
\* value, anything else is NaN
NumberOfText(t) ==
  LET u == Trim(t)
  IN  IF Len(u) = 0 THEN IntNum(0)
      ELSE IF u[1] \in {"-", "+"}
           THEN IF IsDecimal(Tail(u)) THEN DecimalValue(Tail(u), u[1] = "-") ELSE NaN
           ELSE IF IsDecimal(u) THEN DecimalValue(u, FALSE) ELSE NaN

\* Number(v) for any value
ToNumber(v) ==
  CASE v.k = "num"   -> v
    [] v.k = "str"   -> NumberOfText(v.s)
    [] v.k = "null"  -> IntNum(0)
    [] OTHER         -> NaN

\* a * b of two numbers; the factors of this model have a product with at most
\* four decimal places, so the double result is the exact decimal product
Times(a, b) ==
  LET x == ToNumber(a)
      y == ToNumber(b)
      h == x.i * y.f + y.i * x.f + (x.f * y.f) \div 10000
      i == x.i * y.i + h \div 10000
      f == h % 10000
  IN  IF x.k = "nan" \/ y.k = "nan" THEN NaN
      ELSE Num((x.neg # y.neg) /\ (i # 0 \/ f # 0), i, f)

\* Math.round(v): the nearest integer, a tie going up (towards +Infinity)
Round(v) ==
  LET x == ToNumber(v)
  IN  IF x.k = "nan" THEN NaN
      ELSE IF x.neg
           THEN LET m == IF x.f > 5000 THEN x.i + 1 ELSE x.i
                IN  Num(m # 0, m, 0)
           ELSE Num(FALSE, IF x.f >= 5000 THEN x.i + 1 ELSE x.i, 0)

\* the digits after the decimal point, trailing zeros dropped
RECURSIVE FracText(_)
FracText(d) ==
  IF Len(d) > 0 /\ d[Len(d)] = "0" THEN FracText(SubSeq(d, 1, Len(d) - 1)) ELSE d

\* v.toString()
ToText(v) ==
  CASE v.k = "num" ->
         (IF v.neg THEN <<"-">> ELSE <<>>) \o NatText(v.i)
           \o (IF v.f = 0 THEN <<>>
               ELSE <<".">> \o FracText(Tail(NatText(10000 + v.f))))
    [] v.k = "str" -> v.s
    [] v.k = "nan" -> <<"N", "a", "N">>
    [] v.k = "null" -> <<"n", "u", "l", "l">>
    [] OTHER -> <<"u", "n", "d", "e", "f", "i", "n", "e", "d">>

----------------------------------------------------------------------------
(* Pure parts of the adapters.                                             *)

\* updateSheetCell, line 74: the text sent to the sheet for `value`
SheetText(t) == Trim(ReplaceAll(t, ".", ","))

\* an evaluate that keeps scanning and so returns the last usable row's cell
RECURSIVE GoldEvaluateLast(_)
GoldEvaluateLast(rows) ==
  IF Len(rows) = 0 THEN Null
  ELSE LET row == rows[Len(rows)]
       IN  IF (row.htv \/ row.nt) /\ Len(row.cells) >= 3
           THEN Str(Trim(row.cells[2]))
           ELSE GoldEvaluateLast(SubSeq(rows, 1, Len(rows) - 1))

\* gold, page.evaluate (lines 186-207): the second cell of the first row that
\* names an accepted label and has at least three cells, else null
RECURSIVE GoldEvaluate(_)
GoldEvaluate(rows) ==
  IF Len(rows) = 0 THEN Null
  ELSE IF (Head(rows).htv \/ Head(rows).nt) /\ Len(Head(rows).cells) >= 3
       THEN Str(Trim(Head(rows).cells[2]))
       ELSE GoldEvaluate(Tail(rows))

\* a strip whose second replace removes only the first '.'
GoldStripFirstDot(t) == RemoveFirst(RemoveAll(t, ","), ".")

\* gold, lines 210-212: .replace(/,/g, '').replaceAll('.', '')
GoldStrip(t) == RemoveAll(RemoveAll(t, ","), ".")

\* ETF, lines 256-272: the response has a body, data and a non-empty c
EtfUsable(resp) == resp.k = "series" /\ Len(resp.c) > 0

\* a threshold test that also takes 1000 itself for the smaller format
Below1000Inclusive(v) ==
  LET x == ToNumber(v)
  IN  x.k = "num" /\ (x.neg \/ x.i < 1000 \/ (x.i = 1000 /\ x.f = 0))

\* rawStockPrice < 1000 (line 281); NaN compares false, null counts as 0
Below1000(v) ==
  LET x == ToNumber(v)
  IN  x.k = "num" /\ (x.neg \/ x.i < 1000)

\* an ETF price taken from the first close of the series
EtfPriceFirst(c) ==
  LET raw == c[1]
  IN  IF Below1000(raw) THEN Round(Times(raw, IntNum(1000))) ELSE raw

\* ETF, lines 277-283: the last close, times 1000 and rounded when below 1000
EtfPrice(c) ==
  LET raw == c[Len(c)]
  IN  IF Below1000(raw) THEN Round(Times(raw, IntNum(1000))) ELSE raw

\* a ticker check that lets every response through
TickerUsableAlways(t) == TRUE

\* crawlPAXGPrice lines 331-341, crawlBTCPrice lines 436-446: the response has
\* a body and data
TickerUsable(t) == t.k = "data"

\* a conversion that leaves the rate out
ConvertedPriceNoRate(price, vndPrice) == ToNumber(price)

\* crawlPAXGPrice line 343, crawlBTCPrice line 448
ConvertedPrice(price, vndPrice) == Times(ToNumber(price), vndPrice)

\* USDT, waitForFunction (lines 378-382): some span shows 'VND'
UsdtMarker(spans) == \E k \in 1..Len(spans) : Includes(spans[k], <<"V", "N", "D">>)

\* text.split('=')[1]: what lies between the first and the second '='
SplitSecond(t) ==
  IF \E k \in 1..Len(t) : t[k] = "="
  THEN LET a    == CHOOSE k \in 1..Len(t) : t[k] = "=" /\ \A j \in 1..(k - 1) : t[j] # "="
           rest == SubSeq(t, a + 1, Len(t))
           b    == IF \E k \in 1..Len(rest) : rest[k] = "="
                   THEN CHOOSE k \in 1..Len(rest) :
                          rest[k] = "=" /\ \A j \in 1..(k - 1) : rest[j] # "="
                   ELSE Len(rest) + 1
       IN  Str(SubSeq(rest, 1, b - 1))
  ELSE Undefined

\* USDT, page.evaluate (lines 383-402).  The result is [threw, v]: calling
\* .trim() on the undefined second piece throws inside the page
UsdtEvaluate(spans) ==
  LET hits == {k \in 1..Len(spans) :
                 Includes(spans[k], <<"V", "N", "D">>) /\ Includes(spans[k], <<"dong">>)}
  IN  IF hits = {} THEN [threw |-> FALSE, v |-> Null]
      ELSE LET span  == spans[CHOOSE k \in hits : \A j \in hits : k <= j]
               clean == Trim(RemoveFirstSub(RemoveAll(RemoveAll(span, "dong"), ","),
                                            <<"V", "N", "D">>))
               piece == SplitSecond(clean)
           IN  IF piece.k = "undef" THEN [threw |-> TRUE, v |-> Undefined]
               ELSE [threw |-> FALSE, v |-> NumberOfText(Trim(piece.s))]

----------------------------------------------------------------------------
(* Bounds and the inputs the environment may supply.                       *)

\* how many cron firings a behaviour may contain
MaxFirings == 2

\* how many times onModuleDestroy is called in a behaviour
MaxDestroys == 2

T36d000  == <<"3", "6", ".", "0", "0", "0">>
T36c000  == <<"3", "6", ",", "0", "0", "0">>
T36000   == <<"3", "6", "0", "0", "0">>
T1d000d000 == <<"1", ".", "0", "0", "0", ".", "0", "0", "0">>
T1c000c000 == <<"1", ",", "0", "0", "0", ",", "0", "0", "0">>
T1c000d000 == <<"1", ",", "0", "0", "0", ".", "0", "0", "0">>
TPadded  == <<" ", "7", ".", "5", "0", "0", " ">>
TNotPrice == <<"N", "/", "A">>

\* texts of the buy-price cell: digits grouped by '.' and/or ',', or no price
GoldTexts(rich) ==
  IF rich THEN {T36d000, T36c000, T36000, T1d000d000, T1c000c000, T1c000d000, TPadded,
                TNotPrice}
  ELSE {T36d000}

Row(htv, nt, cells) == [htv |-> htv, nt |-> nt, cells |-> cells]
HeaderRow == Row(FALSE, FALSE, <<<<"L">>, <<"B">>, <<"S">>>>)
OtherRow  == Row(FALSE, FALSE, <<<<"X">>, T36000, T36000>>)

\* rendered gold pages: the rows of document.querySelectorAll('tr')
GoldPages(rich) ==
  {<<HeaderRow, OtherRow, Row(TRUE, FALSE, <<<<"H">>, t, T36000>>)>> : t \in GoldTexts(rich)}
    \cup (IF rich
          THEN {<<HeaderRow, OtherRow>>,
                <<HeaderRow, Row(FALSE, TRUE, <<<<"N">>, T36c000, T36000>>),
                  Row(TRUE, FALSE, <<<<"H">>, T1d000d000, T36000>>)>>,
                <<Row(TRUE, FALSE, <<<<"H">>, T36d000>>),
                  Row(FALSE, TRUE, <<<<"N">>, T1c000c000, T36000>>)>>,
                <<Row(TRUE, TRUE, <<<<"H">>, <<>>, T36000>>)>>,
                <<>>}
          ELSE {})

EtfResp(k, c) == [k |-> k, c |-> c]
NoEtfResp == EtfResp("unset", <<>>)

\* answers of the DNSE chart API: no response, no data, no c, or a close series
EtfResponses(rich) ==
  {EtfResp("series", <<IntNum(35990), IntNum(36010), IntNum(36050)>>)}
    \cup (IF rich
          THEN {EtfResp("series", <<IntNum(36050), IntNum(36)>>),
                EtfResp("series", <<>>),
                EtfResp("none", <<>>), EtfResp("nodata", <<>>), EtfResp("noc", <<>>),
                EtfResp("series", <<Num(FALSE, 36, 500)>>),
                EtfResp("series", <<Num(FALSE, 36, 504)>>),
                EtfResp("series", <<Num(FALSE, 36, 507)>>),
                EtfResp("series", <<Num(FALSE, 999, 9996)>>),
                EtfResp("series", <<IntNum(36), IntNum(999), IntNum(1000)>>),
                EtfResp("series", <<IntNum(1000), IntNum(999)>>),
                EtfResp("series", <<IntNum(0)>>),
                EtfResp("series", <<IntNum(36050), Null>>),
                EtfResp("series", <<IntNum(36050), Num(TRUE, 5, 0)>>)}
          ELSE {})

Ticker(k, price) == [k |-> k, price |-> price]
NoTicker == Ticker("unset", Undefined)

\* answers of the Binance ticker API
Tickers(rich) ==
  {Ticker("data", Str(<<"2", ".", "5">>))}
    \cup (IF rich
          THEN {Ticker("nodata", Undefined), Ticker("none", Undefined), Ticker("data", Undefined),
                Ticker("data", Str(<<"6", "5", "0", "0", "0", ".", "5">>)),
                Ticker("data", Str(<<"0">>)),
                Ticker("data", Str(<<"0", ".", "0", "0">>)),
                Ticker("data", Str(<<"a", "b", "c">>)),
                Ticker("data", Str(<<"-", "2", ".", "5">>))}
          ELSE {})

Quote(amount) == <<"1", " ", "U", " ", "=", " ", "dong">> \o amount \o <<" ", "V", "N", "D">>

\* rendered Binance pages: the texts of document.querySelectorAll('span');
\* "dong" stands for the currency sign and "U" for the word USDT
UsdtPages(rich) ==
  {<<<<"M">>, Quote(<<"2", "5", ",", "5", "0", "0">>)>>,
   <<Quote(<<"3">>)>>}
    \cup (IF rich
          THEN {<<<<"V", "N", "D">>>>,
                <<Quote(<<"2", "5", ",", "9", "9", "0", ".", "1", "0">>)>>,
                <<<<"dong", "2", "5", ",", "9", "9", "0", ".", "1", "0", " ", "V", "N", "D">>>>,
                <<Quote(<<"0">>)>>,
                <<Quote(<<"a", "b", "c">>)>>,
                <<Quote(<<"-", "3">>)>>,
                <<<<"M">>>>}
          ELSE {})

----------------------------------------------------------------------------
(* State.                                                                  *)

VARIABLES
  rich,     \* the job whose full input set the environment draws from (fixed by Init)
  pc,       \* where each run stands: the await it is suspended at
  fid,      \* how many times the run's cron job has fired (0: bootstrap)
  nfired,   \* cron firings so far
  browser,  \* this.browser, the field getBrowser assigns
  alive,    \* the browser processes that are running
  pages,    \* the browsers that have their page open
  br,       \* the local `browser` of the adapter a run is in
  val,      \* the value a run holds: buyPrice, rawStockPrice, priceText
  rate,     \* usdtToVndPrice of a run of crawlBinancePrice
  sheet,    \* the cells of the spreadsheet
  sent,     \* per run, the updateSheetCell calls made: <<cell, text>>
  inp,      \* per run, what the sources answered
  ev,       \* per run, what happened: failures and extraction outcomes
  started,  \* per run, the jobs started, in order
  outcome,  \* per run: "running", "returned" or "threw"
  destroy   \* onModuleDestroy: calls made, whether one threw, browsers left alive

vars == <<rich, pc, fid, nfired, browser, alive, pages, br, val, rate, sheet,
          sent, inp, ev, started, outcome, destroy>>

Runs     == {"boot", "cGold", "cEtf", "cCrypto", "cHealth"}
CronRuns == Runs \ {"boot"}

\* the method each @Cron decorator schedules (lines 165, 240, 301, 469)
JobOf(r) ==
  CASE r = "cGold" -> "gold" [] r = "cEtf" -> "etf"
    [] r = "cCrypto" -> "crypto" [] OTHER -> "health"

FirstPc(j) ==
  CASE j = "gold" -> "g_launch" [] j = "etf" -> "e_get"
    [] j = "crypto" -> "u_launch" [] OTHER -> "h_get"

Cells == {"E2", "E18", "C9", "C10", "C11"}

Blank     == <<"blank">>
NoBrowser == <<"none", "none", 0>>
NoInput   == [gold |-> <<>>, etf |-> NoEtfResp, usdt |-> <<>>,
              paxg |-> NoTicker, btc |-> NoTicker]

\* the browser process a launch of run r in adapter a creates
Bid(r, a) == <<r, a, fid[r]>>

GoldPcs == {"g_launch", "g_newPage", "g_goto", "g_wait", "g_eval", "g_sink", "g_close"}
UsdtPcs == {"u_launch", "u_newPage", "u_goto", "u_wait", "u_eval", "u_sink",
            "u_pclose", "u_bclose"}

\* onModuleDestroy was never called
NoDestroy == [n |-> 0, threw |-> FALSE, left |-> {}]

InitWith(r) ==
  /\ rich = r
  /\ pc = [x \in Runs |-> IF x = "boot" THEN "start" ELSE "idle"]
  /\ fid = [x \in Runs |-> 0]
  /\ nfired = 0
  /\ browser = NoBrowser
  /\ alive = {}
  /\ pages = {}
  /\ br = [x \in Runs |-> NoBrowser]
  /\ val = [x \in Runs |-> Undefined]
  /\ rate = [x \in Runs |-> Undefined]
  /\ sheet = [c \in Cells |-> Blank]
  /\ sent = [x \in Runs |-> <<>>]
  /\ inp = [x \in Runs |-> NoInput]
  /\ ev = [x \in Runs |-> {}]
  /\ started = [x \in Runs |-> <<>>]
  /\ outcome = [x \in Runs |-> "running"]
  /\ destroy = NoDestroy

Init == InitWith("none")

\* one job at a time is given its full input set
InitData == \E j \in {"gold", "etf", "crypto"} : InitWith(j)

----------------------------------------------------------------------------
(* Control flow shared by the jobs.                                        *)

\* run r moves on to the await at p
Step(r, p) ==
  /\ pc' = [pc EXCEPT ![r] = p]
  /\ UNCHANGED <<started, outcome>>

\* job j of run r returns normally; onApplicationBootstrap (lines 52-54)
\* then awaits the next job, a cron run is over
Return(r, j) ==
  IF r = "boot" /\ j = "gold"
  THEN /\ pc' = [pc EXCEPT ![r] = "e_get"]
       /\ started' = [started EXCEPT ![r] = Append(@, "etf")]
       /\ UNCHANGED outcome
  ELSE IF r = "boot" /\ j = "etf"
  THEN /\ pc' = [pc EXCEPT ![r] = "u_launch"]
       /\ started' = [started EXCEPT ![r] = Append(@, "crypto")]
       /\ UNCHANGED outcome
  ELSE /\ pc' = [pc EXCEPT ![r] = "done"]
       /\ outcome' = [outcome EXCEPT ![r] = "returned"]
       /\ UNCHANGED started

\* an exception leaves the job of run r; in onApplicationBootstrap it leaves
\* the startup routine as well (nothing catches it at lines 45-59)
Throw(r) ==
  /\ pc' = [pc EXCEPT ![r] = "done"]
  /\ outcome' = [outcome EXCEPT ![r] = "threw"]
  /\ UNCHANGED started

Note(r, e) == ev' = [ev EXCEPT ![r] = @ \cup {e}]

\* whether the environment may make an awaited operation fail: it may in
\* SpecData; under Spec, which interleaves the runs, every operation succeeds
MayFail == rich # "none"

\* the operation run r awaits at `step` fails
Fail(r, step) == MayFail /\ Note(r, <<"fail", step>>)

\* a crawlUSDTPrice that reads the field this.browser at every use
UsdtBrowserShared(r) == browser

\* the browser crawlUSDTPrice of run r works on and closes: its local const
\* `browser`, bound once to what getBrowser returned (line 364)
UsdtBrowser(r) == br[r]

\* the operation run r awaits at `step` on its browser or page rejects: always
\* when that browser has been closed meanwhile, else as any operation may
Broken(r, step) ==
  IF UsdtBrowser(r) \in alive THEN Fail(r, step) ELSE Note(r, <<"fail", step>>)

\* x.toString() throws on null and undefined
CanText(v) == v.k \notin {"null", "undef"}

\* an update<X>Cell that sends every value to the gold cell
SinkWriteGoldCell(r, cell, v) ==
  /\ sent' = [sent EXCEPT ![r] = Append(@, <<"E2", SheetText(ToText(v))>>)]
  /\ sheet' = [sheet EXCEPT !["E2"] = SheetText(ToText(v))]
  /\ UNCHANGED ev

\* an update<X>Cell that makes its updateSheetCell call twice
SinkWriteTwice(r, cell, v) ==
  /\ sent' = [sent EXCEPT ![r] = @ \o <<<<cell, SheetText(ToText(v))>>,
                                          <<cell, SheetText(ToText(v))>>>>]
  /\ sheet' = [sheet EXCEPT ![cell] = SheetText(ToText(v))]
  /\ UNCHANGED ev

\* a sink that appends the text to what the cell holds
SetCellAppend(old, text) == old \o text

\* spreadsheets.values.update on the one-cell range (lines 69-76): the cell
\* takes the text, whatever it held
SetCell(old, text) == text

\* update<X>Cell(v) -> updateSheetCell('Detail', cell, v.toString()), lines
\* 61-141: the call is made, the sheet takes the text unless the API fails,
\* and no error leaves either method
SinkWrite(r, cell, v) ==
  IF CanText(v)
  THEN \E ok \in BOOLEAN :
         /\ ok \/ MayFail
         /\ sent' = [sent EXCEPT ![r] = Append(@, <<cell, SheetText(ToText(v))>>)]
         /\ sheet' = IF ok THEN [sheet EXCEPT ![cell] = SetCell(@, SheetText(ToText(v)))]
                            ELSE sheet
         /\ ev' = IF ok THEN ev ELSE [ev EXCEPT ![r] = @ \cup {<<"sinkfail", cell>>}]
  ELSE /\ Note(r, <<"sinkfail", cell>>)
       /\ UNCHANGED <<sent, sheet>>

\* onApplicationBootstrap is entered
BootStart ==
  /\ pc["boot"] = "start"
  /\ pc' = [pc EXCEPT !["boot"] = "g_launch"]
  /\ started' = [started EXCEPT !["boot"] = <<"gold">>]
  /\ UNCHANGED <<rich, destroy, fid, nfired, browser, alive, pages, br, val, rate, sheet,
                 sent, inp, ev, outcome>>

\* the scheduler fires the @Cron method of run r; nothing in the service
\* makes a firing wait for the startup pass or for another job
Fire(r) ==
  /\ r \in CronRuns
  /\ pc[r] \in {"idle", "done"}
  /\ nfired < MaxFirings
  /\ nfired' = nfired + 1
  /\ fid' = [fid EXCEPT ![r] = @ + 1]
  /\ pc' = [pc EXCEPT ![r] = FirstPc(JobOf(r))]
  /\ br' = [br EXCEPT ![r] = NoBrowser]
  /\ val' = [val EXCEPT ![r] = Undefined]
  /\ rate' = [rate EXCEPT ![r] = Undefined]
  /\ sent' = [sent EXCEPT ![r] = <<>>]
  /\ inp' = [inp EXCEPT ![r] = NoInput]
  /\ ev' = [ev EXCEPT ![r] = {}]
  /\ started' = [started EXCEPT ![r] = <<JobOf(r)>>]
  /\ outcome' = [outcome EXCEPT ![r] = "running"]
  /\ UNCHANGED <<rich, destroy, browser, alive, pages, sheet>>

----------------------------------------------------------------------------
(* crawlDojiHungThinhVuong9999GoldRingPrice, lines 165-238.                *)

\* puppeteer.launch; a failure is caught and `browser` stays null
GoldLaunch(r) ==
  /\ pc[r] = "g_launch"
  /\ \E ok \in BOOLEAN :
       IF ok
       THEN /\ br' = [br EXCEPT ![r] = Bid(r, "gold")]
            /\ alive' = alive \cup {Bid(r, "gold")}
            /\ Step(r, "g_newPage")
            /\ UNCHANGED ev
       ELSE /\ Fail(r, "g_launch")
            /\ Return(r, "gold")
            /\ UNCHANGED <<br, alive>>
  /\ UNCHANGED <<rich, destroy, fid, nfired, browser, pages, val, rate, sheet, sent, inp>>

\* browser.newPage
GoldNewPage(r) ==
  /\ pc[r] = "g_newPage"
  /\ \E ok \in BOOLEAN :
       IF ok
       THEN /\ pages' = pages \cup {br[r]}
            /\ Step(r, "g_goto")
            /\ UNCHANGED ev
       ELSE /\ Fail(r, "g_newPage")
            /\ Step(r, "g_close")
            /\ UNCHANGED pages
  /\ UNCHANGED <<rich, destroy, fid, nfired, browser, alive, br, val, rate, sheet, sent, inp>>

\* page.goto: the page that gets rendered is the environment's choice
GoldGoto(r) ==
  /\ pc[r] = "g_goto"
  /\ \/ \E rows \in GoldPages(rich = "gold") :
          /\ inp' = [inp EXCEPT ![r].gold = rows]
          /\ Step(r, "g_wait")
          /\ UNCHANGED ev
     \/ /\ Fail(r, "g_goto")
        /\ Step(r, "g_close")
        /\ UNCHANGED inp
  /\ UNCHANGED <<rich, destroy, fid, nfired, browser, alive, pages, br, val, rate, sheet, sent>>

\* page.waitForSelector('table', 10 s)
GoldWait(r) ==
  /\ pc[r] = "g_wait"
  /\ \E ok \in BOOLEAN :
       IF ok
       THEN Step(r, "g_eval") /\ UNCHANGED ev
       ELSE Fail(r, "g_wait") /\ Step(r, "g_close")
  /\ UNCHANGED <<rich, destroy, fid, nfired, browser, alive, pages, br, val, rate, sheet,
                 sent, inp>>

\* page.evaluate and the test of goldData.buyPrice, lines 186-221
GoldEval(r) ==
  /\ pc[r] = "g_eval"
  /\ \/ LET d == GoldEvaluate(inp[r].gold)
        IN  IF Truthy(d)
            THEN /\ val' = [val EXCEPT ![r] = Str(GoldStrip(d.s))]
                 /\ Note(r, <<"found", "gold">>)
                 /\ Step(r, "g_sink")
            ELSE /\ Note(r, <<"none", "gold">>)
                 /\ Step(r, "g_close")
                 /\ UNCHANGED val
     \/ /\ Fail(r, "g_eval")
        /\ Step(r, "g_close")
        /\ UNCHANGED val
  /\ UNCHANGED <<rich, destroy, fid, nfired, browser, alive, pages, br, rate, sheet, sent, inp>>

\* updateGoldCell(goldData.buyPrice), line 216
GoldSink(r) ==
  /\ pc[r] = "g_sink"
  /\ SinkWrite(r, "E2", val[r])
  /\ Step(r, "g_close")
  /\ UNCHANGED <<rich, destroy, fid, nfired, browser, alive, pages, br, val, rate, inp>>

\* finally: browser.close(), lines 233-237; its failure leaves the method
GoldClose(r) ==
  /\ pc[r] = "g_close"
  /\ \E ok \in BOOLEAN :
       IF ok
       THEN /\ alive' = alive \ {br[r]}
            /\ pages' = pages \ {br[r]}
            /\ Return(r, "gold")
            /\ UNCHANGED ev
       ELSE /\ Fail(r, "g_close")
            /\ Throw(r)
            /\ UNCHANGED <<alive, pages>>
  /\ UNCHANGED <<rich, destroy, fid, nfired, browser, br, val, rate, sheet, sent, inp>>

----------------------------------------------------------------------------
(* crawlE1VFVN30Price, lines 240-299.                                      *)

\* the HTTP GET and the checks of its response, lines 253-283
EtfGet(r) ==
  /\ pc[r] = "e_get"
  /\ \/ \E resp \in EtfResponses(rich = "etf") :
          /\ inp' = [inp EXCEPT ![r].etf = resp]
          /\ IF EtfUsable(resp)
             THEN /\ val' = [val EXCEPT ![r] = EtfPrice(resp.c)]
                  /\ Note(r, <<"found", "etf">>)
                  /\ Step(r, "e_sink")
             ELSE /\ Note(r, <<"empty", "etf">>)
                  /\ Return(r, "etf")
                  /\ UNCHANGED val
     \/ /\ Fail(r, "e_get")
        /\ Return(r, "etf")
        /\ UNCHANGED <<inp, val>>
  /\ UNCHANGED <<rich, destroy, fid, nfired, browser, alive, pages, br, rate, sheet, sent>>

\* updateE1VFVN30Cell(rawStockPrice), line 288
EtfSink(r) ==
  /\ pc[r] = "e_sink"
  /\ SinkWrite(r, "E18", val[r])
  /\ Return(r, "etf")
  /\ UNCHANGED <<rich, destroy, fid, nfired, browser, alive, pages, br, val, rate, inp>>

----------------------------------------------------------------------------
(* crawlBinancePrice and its adapters, lines 143-163 and 301-467.          *)

\* a crawlUSDTPrice whose catch block falls back to a fixed rate
UsdtFailureResultFallback == IntNum(1)

\* what crawlUSDTPrice returns after its catch block ran: nothing
UsdtFailureResult == Undefined

\* the rate crawlBinancePrice hands to crawlPAXGPrice and crawlBTCPrice: its
\* own local usdtToVndPrice
\* a conversion that reads the rate of the other crypto run in flight
RateArgOther(r) ==
  IF r = "boot" THEN rate["cCrypto"] ELSE IF r = "cCrypto" THEN rate["boot"] ELSE rate[r]

RateArg(r) == rate[r]

\* the guard of line 305: no usable rate, skip the conversions
RateMissing(v) == ~Truthy(v)

\* getBrowser: launch, assign this.browser, rethrow a failure; the rethrown
\* error leaves crawlUSDTPrice and is caught by crawlBinancePrice
UsdtLaunch(r) ==
  /\ pc[r] = "u_launch"
  /\ \E ok \in BOOLEAN :
       IF ok
       THEN /\ browser' = Bid(r, "usdt")
            /\ br' = [br EXCEPT ![r] = Bid(r, "usdt")]
            /\ alive' = alive \cup {Bid(r, "usdt")}
            /\ Step(r, "u_newPage")
            /\ UNCHANGED ev
       ELSE /\ Fail(r, "u_launch")
            /\ Return(r, "crypto")
            /\ UNCHANGED <<browser, br, alive>>
  /\ UNCHANGED <<rich, destroy, fid, nfired, pages, val, rate, sheet, sent, inp>>

\* browser.newPage, line 365, before the try: its failure leaves
\* crawlUSDTPrice at once and is caught by crawlBinancePrice
UsdtNewPage(r) ==
  /\ pc[r] = "u_newPage"
  /\ \E ok \in BOOLEAN :
       IF ok
       THEN /\ UsdtBrowser(r) \in alive
            /\ pages' = pages \cup {UsdtBrowser(r)}
            /\ Step(r, "u_goto")
            /\ UNCHANGED ev
       ELSE /\ Broken(r, "u_newPage")
            /\ Return(r, "crypto")
            /\ UNCHANGED pages
  /\ UNCHANGED <<rich, destroy, fid, nfired, browser, alive, br, val, rate, sheet, sent, inp>>

\* page.setUserAgent and page.goto, lines 370-377
UsdtGoto(r) ==
  /\ pc[r] = "u_goto"
  /\ \/ \E spans \in UsdtPages(rich = "crypto") :
          /\ UsdtBrowser(r) \in alive
          /\ inp' = [inp EXCEPT ![r].usdt = spans]
          /\ Step(r, "u_wait")
          /\ UNCHANGED <<ev, val>>
     \/ /\ Broken(r, "u_goto")
        /\ val' = [val EXCEPT ![r] = UsdtFailureResult]
        /\ Step(r, "u_pclose")
        /\ UNCHANGED inp
  /\ UNCHANGED <<rich, destroy, fid, nfired, browser, alive, pages, br, rate, sheet, sent>>

\* page.waitForFunction: resolves only when a span shows 'VND', else times out
UsdtWait(r) ==
  /\ pc[r] = "u_wait"
  /\ \/ /\ UsdtMarker(inp[r].usdt)
        /\ UsdtBrowser(r) \in alive
        /\ Step(r, "u_eval")
        /\ UNCHANGED <<ev, val>>
     \/ /\ IF UsdtMarker(inp[r].usdt)
           THEN Broken(r, "u_wait")
           ELSE Note(r, <<"fail", "u_wait">>)
        /\ val' = [val EXCEPT ![r] = UsdtFailureResult]
        /\ Step(r, "u_pclose")
  /\ UNCHANGED <<rich, destroy, fid, nfired, browser, alive, pages, br, rate, sheet, sent, inp>>

\* page.evaluate and the test of priceText, lines 383-414
UsdtEval(r) ==
  /\ pc[r] = "u_eval"
  /\ \/ LET res == UsdtEvaluate(inp[r].usdt)
        IN  UsdtBrowser(r) \in alive /\
            IF res.threw
            THEN /\ Note(r, <<"fail", "u_eval">>)
                 /\ val' = [val EXCEPT ![r] = UsdtFailureResult]
                 /\ Step(r, "u_pclose")
            ELSE IF Truthy(res.v)
            THEN /\ Note(r, <<"found", "usdt">>)
                 /\ val' = [val EXCEPT ![r] = res.v]
                 /\ Step(r, "u_sink")
            ELSE /\ Note(r, <<"none", "usdt">>)
                 /\ val' = [val EXCEPT ![r] = res.v]
                 /\ Step(r, "u_pclose")
     \/ /\ Broken(r, "u_eval")
        /\ val' = [val EXCEPT ![r] = UsdtFailureResult]
        /\ Step(r, "u_pclose")
  /\ UNCHANGED <<rich, destroy, fid, nfired, browser, alive, pages, br, rate, sheet, sent, inp>>

\* a crawlUSDTPrice that a failed update of the sheet sends to its catch block
UsdtSinkThrows(r) ==
  /\ pc[r] = "u_sink"
  /\ SinkWrite(r, "C9", val[r])
  /\ val' = [val EXCEPT ![r] = IF <<"sinkfail", "C9">> \in ev'[r]
                                 THEN UsdtFailureResult ELSE @]
  /\ Step(r, "u_pclose")
  /\ UNCHANGED <<rich, destroy, fid, nfired, browser, alive, pages, br, rate, inp>>

\* updateUSDTCell(priceText), line 407
UsdtSink(r) ==
  /\ pc[r] = "u_sink"
  /\ SinkWrite(r, "C9", val[r])
  /\ Step(r, "u_pclose")
  /\ UNCHANGED <<rich, destroy, fid, nfired, browser, alive, pages, br, val, rate, inp>>

\* finally: page.close(), line 422; its failure skips browser.close() and
\* leaves crawlUSDTPrice, caught by crawlBinancePrice
UsdtPageClose(r) ==
  /\ pc[r] = "u_pclose"
  /\ \E ok \in BOOLEAN :
       IF ok
       THEN /\ UsdtBrowser(r) \in alive
            /\ pages' = pages \ {UsdtBrowser(r)}
            /\ Step(r, "u_bclose")
            /\ UNCHANGED ev
       ELSE /\ Broken(r, "u_pclose")
            /\ Return(r, "crypto")
            /\ UNCHANGED pages
  /\ UNCHANGED <<rich, destroy, fid, nfired, browser, alive, br, val, rate, sheet, sent, inp>>

\* finally: browser.close(), line 423; then crawlUSDTPrice returns and
\* crawlBinancePrice tests the rate, lines 304-310
UsdtBrowserClose(r) ==
  /\ pc[r] = "u_bclose"
  /\ \E ok \in BOOLEAN :
       IF ok
       THEN /\ alive' = alive \ {UsdtBrowser(r)}
            /\ pages' = pages \ {UsdtBrowser(r)}
            /\ rate' = [rate EXCEPT ![r] = val[r]]
            /\ IF RateMissing(val[r])
               THEN Note(r, <<"norate", "usdt">>) /\ Return(r, "crypto")
               ELSE Note(r, <<"rate", "usdt">>) /\ Step(r, "p_get")
       ELSE /\ Fail(r, "u_bclose")
            /\ Return(r, "crypto")
            /\ UNCHANGED <<alive, pages, rate>>
  /\ UNCHANGED <<rich, destroy, fid, nfired, browser, br, val, sheet, sent, inp>>

\* crawlPAXGPrice up to the test of priceText, lines 322-350
PaxgGet(r) ==
  /\ pc[r] = "p_get"
  /\ \/ \E t \in Tickers(rich = "crypto") :
          /\ inp' = [inp EXCEPT ![r].paxg = t]
          /\ IF TickerUsable(t) /\ Truthy(ConvertedPrice(t.price, RateArg(r)))
             THEN /\ val' = [val EXCEPT ![r] = ConvertedPrice(t.price, RateArg(r))]
                  /\ Note(r, <<"found", "paxg">>)
                  /\ Step(r, "p_sink")
             ELSE /\ Note(r, <<IF TickerUsable(t) THEN "none" ELSE "empty", "paxg">>)
                  /\ Step(r, "b_get")
                  /\ UNCHANGED val
     \/ /\ Fail(r, "p_get")
        /\ Step(r, "b_get")
        /\ UNCHANGED <<inp, val>>
  /\ UNCHANGED <<rich, destroy, fid, nfired, browser, alive, pages, br, rate, sheet, sent>>

\* updatePaxGoldCell(priceText), line 347
PaxgSink(r) ==
  /\ pc[r] = "p_sink"
  /\ SinkWrite(r, "C10", val[r])
  /\ Step(r, "b_get")
  /\ UNCHANGED <<rich, destroy, fid, nfired, browser, alive, pages, br, val, rate, inp>>

\* crawlBTCPrice up to the test of priceText, lines 427-456
BtcGet(r) ==
  /\ pc[r] = "b_get"
  /\ \/ \E t \in Tickers(rich = "crypto") :
          /\ inp' = [inp EXCEPT ![r].btc = t]
          /\ IF TickerUsable(t) /\ Truthy(ConvertedPrice(t.price, RateArg(r)))
             THEN /\ val' = [val EXCEPT ![r] = ConvertedPrice(t.price, RateArg(r))]
                  /\ Note(r, <<"found", "btc">>)
                  /\ Step(r, "b_sink")
             ELSE /\ Note(r, <<IF TickerUsable(t) THEN "none" ELSE "empty", "btc">>)
                  /\ Return(r, "crypto")
                  /\ UNCHANGED val
     \/ /\ Fail(r, "b_get")
        /\ Return(r, "crypto")
        /\ UNCHANGED <<inp, val>>
  /\ UNCHANGED <<rich, destroy, fid, nfired, browser, alive, pages, br, rate, sheet, sent>>

\* updateBTCCell(priceText), line 453
BtcSink(r) ==
  /\ pc[r] = "b_sink"
  /\ SinkWrite(r, "C11", val[r])
  /\ Return(r, "crypto")
  /\ UNCHANGED <<rich, destroy, fid, nfired, browser, alive, pages, br, val, rate, inp>>

----------------------------------------------------------------------------
(* checkHealth, lines 469-490: every failure is caught and logged.        *)

HealthGet(r) ==
  /\ pc[r] = "h_get"
  /\ \E ok \in BOOLEAN :
       IF ok THEN UNCHANGED ev ELSE Fail(r, "h_get")
  /\ Return(r, "health")
  /\ UNCHANGED <<rich, destroy, fid, nfired, browser, alive, pages, br, val, rate, sheet,
                 sent, inp>>

----------------------------------------------------------------------------
(* Specifications.                                                         *)

\* the bootstrap pass and the cron firings, interleaved at every await, with
\* operations that succeed
Next ==
  \/ BootStart
  \/ \E r \in CronRuns : Fire(r)
  \/ \E r \in Runs : GoldLaunch(r)
  \/ \E r \in Runs : GoldNewPage(r)
  \/ \E r \in Runs : GoldGoto(r)
  \/ \E r \in Runs : GoldWait(r)
  \/ \E r \in Runs : GoldEval(r)
  \/ \E r \in Runs : GoldSink(r)
  \/ \E r \in Runs : GoldClose(r)
  \/ \E r \in Runs : EtfGet(r)
  \/ \E r \in Runs : EtfSink(r)
  \/ \E r \in Runs : UsdtLaunch(r)
  \/ \E r \in Runs : UsdtNewPage(r)
  \/ \E r \in Runs : UsdtGoto(r)
  \/ \E r \in Runs : UsdtWait(r)
  \/ \E r \in Runs : UsdtEval(r)
  \/ \E r \in Runs : UsdtSink(r)
  \/ \E r \in Runs : UsdtPageClose(r)
  \/ \E r \in Runs : UsdtBrowserClose(r)
  \/ \E r \in Runs : PaxgGet(r)
  \/ \E r \in Runs : PaxgSink(r)
  \/ \E r \in Runs : BtcGet(r)
  \/ \E r \in Runs : BtcSink(r)
  \/ \E r \in Runs : HealthGet(r)

Spec == Init /\ [][Next]_vars

\* onModuleDestroy, lines 41-43: this.browser?.close().  Nothing when the
\* field is null; closing a browser that is closed already resolves; a
\* rejection of close() leaves the hook, which has no try/catch.  The field is
\* not cleared.
ModuleDestroy ==
  /\ destroy.n < MaxDestroys
  /\ IF browser # NoBrowser /\ browser \in alive
     THEN \E ok \in BOOLEAN :
            IF ok
            THEN /\ alive' = alive \ {browser}
                 /\ pages' = pages \ {browser}
                 /\ destroy' = [n |-> destroy.n + 1, threw |-> destroy.threw,
                                left |-> alive \ {browser}]
            ELSE /\ destroy' = [n |-> destroy.n + 1, threw |-> TRUE, left |-> alive]
                 /\ UNCHANGED <<alive, pages>>
     ELSE /\ destroy' = [n |-> destroy.n + 1, threw |-> destroy.threw, left |-> alive]
          /\ UNCHANGED <<alive, pages>>
  /\ UNCHANGED <<rich, pc, fid, nfired, browser, br, val, rate, sheet, sent, inp, ev,
                 started, outcome>>


\* the bootstrap pass alone, with failing operations and the full input set
\* of one job
NextData ==
  \/ BootStart
  \/ GoldLaunch("boot")
  \/ GoldNewPage("boot")
  \/ GoldGoto("boot")
  \/ GoldWait("boot")
  \/ GoldEval("boot")
  \/ GoldSink("boot")
  \/ GoldClose("boot")
  \/ EtfGet("boot")
  \/ EtfSink("boot")
  \/ UsdtLaunch("boot")
  \/ UsdtNewPage("boot")
  \/ UsdtGoto("boot")
  \/ UsdtWait("boot")
  \/ UsdtEval("boot")
  \/ UsdtSink("boot")
  \/ UsdtPageClose("boot")
  \/ UsdtBrowserClose("boot")
  \/ PaxgGet("boot")
  \/ PaxgSink("boot")
  \/ BtcGet("boot")
  \/ BtcSink("boot")

SpecData == InitData /\ [][NextData]_vars

\* the startup pass with the shutdown hook: onModuleDestroy may be called at
\* any time, before, while and after the pass is suspended at its awaits
NextDestroy == NextData \/ ModuleDestroy

SpecDestroy == Init /\ [][NextDestroy]_vars

\* the awaits of firstValueFrom(this.httpService.get(url)), lines 253-255,
\* 328-330, 433-435 and 473-475: the call passes the URL alone, no request
\* configuration and so no timeout
HttpGetPcs == {"e_get", "p_get", "b_get", "h_get"}

\* the service of the GET run r awaits never answers: no timer was armed with
\* the request, so nothing settles the promise and the run stays suspended
HttpPending(r) ==
  /\ pc[r] \in HttpGetPcs
  /\ Note(r, <<"pending", pc[r]>>)
  /\ Step(r, "pending")
  /\ UNCHANGED <<rich, destroy, fid, nfired, browser, alive, pages, br, val, rate, sheet,
                 sent, inp>>

\* the cron runs of the ETF job and of the health check, beside the startup
\* pass, with services that may never answer
LiveRuns == {"cEtf", "cHealth"}

NextLive ==
  \/ NextData
  \/ \E r \in LiveRuns : Fire(r)
  \/ EtfGet("cEtf")
  \/ EtfSink("cEtf")
  \/ HealthGet("cHealth")
  \/ \E r \in LiveRuns \cup {"boot"} : HttpPending(r)

\* the event loop resumes every run whose awaited operation has settled
Resumed ==
  /\ WF_vars(EtfGet("cEtf"))
  /\ WF_vars(EtfSink("cEtf"))
  /\ WF_vars(HealthGet("cHealth"))

SpecLive == Init /\ [][NextLive]_vars /\ Resumed

----------------------------------------------------------------------------
(* Properties.                                                             *)

\* the updateSheetCell calls of run r that target `cell`
Writes(r, cell) == {k \in 1..Len(sent[r]) : sent[r][k][1] = cell}

Wrote(r, cell) == Writes(r, cell) # {}

\* crawlUSDTPrice of run r failed: one of its operations threw or timed out,
\* or it found no price span or no usable rate
UsdtFailed(r) ==
  \/ \E p \in UsdtPcs : <<"fail", p>> \in ev[r]
  \/ <<"none", "usdt">> \in ev[r]

\* C1: in a run of the crypto job whose exchange-rate adapter failed, no
\* update of the PAXG cell (C10) or the BTC cell (C11) is made and the sheet
\* keeps both cells; in the startup pass the gold cell (E2) and the ETF cell
\* (E18) have nevertheless had their update whenever their own extraction
\* succeeded.
C1_NoConversionWithoutRate ==
  \A r \in Runs :
    UsdtFailed(r) =>
      /\ ~Wrote(r, "C10") /\ ~Wrote(r, "C11")
      /\ pc[r] \notin {"p_get", "p_sink", "b_get", "b_sink"}
      /\ (r = "boot" =>
            /\ sheet["C10"] = Blank /\ sheet["C11"] = Blank
            /\ (<<"found", "gold">> \in ev[r] => Wrote(r, "E2"))
            /\ (<<"found", "etf">> \in ev[r] => Wrote(r, "E18")))

\* C1 witness: the startup pass is over, its USDT page quoted the rate 0, and
\* the gold and ETF cells were updated.
C1_Witness ==
  /\ pc["boot"] = "done"
  /\ <<"none", "usdt">> \in ev["boot"]
  /\ inp["boot"].usdt = <<Quote(<<"0">>)>>
  /\ Wrote("boot", "E2") /\ Wrote("boot", "E18")
  /\ sheet["C10"] = Blank /\ sheet["C11"] = Blank

\* C2: every browser an adapter launched is closed once the adapter call has
\* returned or thrown, whichever operation other than browser.close() itself
\* failed.
C2_BrowserClosedOnExit ==
  \A r \in Runs :
    /\ (br[r][2] = "gold" /\ pc[r] \notin GoldPcs /\ <<"fail", "g_close">> \notin ev[r])
         => br[r] \notin alive
    /\ (br[r][2] = "usdt" /\ pc[r] \notin UsdtPcs /\ <<"fail", "u_bclose">> \notin ev[r])
         => br[r] \notin alive

\* C3: no job and no startup routine ends with an exception.
C3_NoJobThrows == \A r \in Runs : outcome[r] # "threw"

\* crawlBTCPrice of run r was called
BtcRan(r) == \E e \in ev[r] : e[2] \in {"btc", "b_get"}

\* C4: when the startup pass is over all three jobs were started, whatever
\* failed in the gold or the ETF job; and in a crypto run that obtained the
\* rate, crawlBTCPrice ran whatever happened in crawlPAXGPrice.
C4_SiblingsStillRun ==
  /\ pc["boot"] = "done" => started["boot"] = <<"gold", "etf", "crypto">>
  /\ \A r \in Runs :
       (pc[r] = "done" /\ <<"rate", "usdt">> \in ev[r]) => BtcRan(r)

\* C5: at most one browser process launched by the service is alive at any
\* time.
C5_AtMostOneBrowser == Cardinality(alive) <= 1

\* C6: no cron run starts before the startup pass is over, and the startup
\* pass started gold, ETF and crypto in this order.
C6_StartupBeforeCron ==
  /\ \A r \in CronRuns : pc[r] # "idle" => pc["boot"] = "done"
  /\ pc["boot"] = "done" => started["boot"] = <<"gold", "etf", "crypto">>

\* the rate run r's own crawlUSDTPrice extracted from the page it was shown
OwnRate(r) == UsdtEvaluate(inp[r].usdt).v

\* C7: a run is in crawlPAXGPrice or crawlBTCPrice only after its own
\* crawlUSDTPrice returned a usable rate and closed its browser; the rate
\* both conversions hold is the one that call extracted, and every value
\* they computed or sent is the ticker price times that rate.
C7_OwnRateOnly ==
  \A r \in Runs :
    /\ pc[r] \in {"p_get", "p_sink", "b_get", "b_sink"} =>
         /\ <<"rate", "usdt">> \in ev[r] /\ ~UsdtFailed(r)
         /\ br[r] \notin alive
         /\ ~UsdtEvaluate(inp[r].usdt).threw
         /\ rate[r] = OwnRate(r) /\ Truthy(rate[r])
    /\ pc[r] = "p_sink" => val[r] = Times(ToNumber(inp[r].paxg.price), OwnRate(r))
    /\ pc[r] = "b_sink" => val[r] = Times(ToNumber(inp[r].btc.price), OwnRate(r))
    /\ \A k \in Writes(r, "C10") :
         sent[r][k][2] = SheetText(ToText(Times(ToNumber(inp[r].paxg.price), OwnRate(r))))
    /\ \A k \in Writes(r, "C11") :
         sent[r][k][2] = SheetText(ToText(Times(ToNumber(inp[r].btc.price), OwnRate(r))))

\* C7 witness: the startup pass and a cron run convert at the same time with
\* different rates.
C7_Witness ==
  /\ pc["boot"] = "p_sink" /\ pc["cCrypto"] = "b_sink"
  /\ rate["boot"] # rate["cCrypto"]
  /\ Wrote("cCrypto", "C10")

\* t is a ticker whose price is a decimal string
PricedTicker(t) == t.k = "data" /\ t.price.k = "str" /\ NumberOfText(t.price.s).k = "num"

\* the text updateSheetCell is given for the price p at the rate v
ConvertedText(p, v) == SheetText(ToText(Times(NumberOfText(p.s), v)))

\* run r is past crawlPAXGPrice / past crawlBTCPrice with a rate
PaxgOver(r) == <<"rate", "usdt">> \in ev[r] /\ pc[r] \in {"b_get", "b_sink", "done"}

BtcOver(r) == <<"rate", "usdt">> \in ev[r] /\ pc[r] = "done"

\* C8 as stated: for every ticker price p and rate r the BTC adapter has
\* written p * r to C11 and the PAXG adapter p * r to C10.
C8_EveryPriceConverted ==
  \A r \in Runs :
    /\ (PaxgOver(r) /\ PricedTicker(inp[r].paxg)) =>
         \E k \in Writes(r, "C10") : sent[r][k][2] = ConvertedText(inp[r].paxg.price, rate[r])
    /\ (BtcOver(r) /\ PricedTicker(inp[r].btc)) =>
         \E k \in Writes(r, "C11") : sent[r][k][2] = ConvertedText(inp[r].btc.price, rate[r])

\* C8: for every ticker price p and rate r whose product is not 0 the BTC
\* adapter has made exactly one update of C11, with p * r, and the PAXG
\* adapter exactly one update of C10, with p * r (65000.5 at 25500 gives
\* 1657512750); when the product is 0 the adapter makes no update.
C8_NonZeroPriceConverted ==
  \A r \in Runs :
    /\ (PaxgOver(r) /\ PricedTicker(inp[r].paxg)) =>
         IF IsZero(NumberOfText(inp[r].paxg.price.s))
         THEN ~Wrote(r, "C10")
         ELSE /\ Cardinality(Writes(r, "C10")) = 1
              /\ \A k \in Writes(r, "C10") :
                   sent[r][k][2] = ConvertedText(inp[r].paxg.price, rate[r])
    /\ (BtcOver(r) /\ PricedTicker(inp[r].btc)) =>
         IF IsZero(NumberOfText(inp[r].btc.price.s))
         THEN ~Wrote(r, "C11")
         ELSE /\ Cardinality(Writes(r, "C11")) = 1
              /\ \A k \in Writes(r, "C11") :
                   sent[r][k][2] = ConvertedText(inp[r].btc.price, rate[r])
    /\ (BtcOver(r) /\ inp[r].btc = Ticker("data", Str(<<"6", "5", "0", "0", "0", ".", "5">>))
          /\ rate[r] = IntNum(25500)) =>
         \E k \in Writes(r, "C11") :
           sent[r][k][2] = <<"1", "6", "5", "7", "5", "1", "2", "7", "5", "0">>

\* C8 witness: BTC at 65000.5 and a rate of 25500 ended in the sheet's C11 as
\* 1657512750, and PAXG at 2.5 was written as well.
C8_Witness ==
  /\ pc["boot"] = "done"
  /\ inp["boot"].btc = Ticker("data", Str(<<"6", "5", "0", "0", "0", ".", "5">>))
  /\ inp["boot"].paxg = Ticker("data", Str(<<"2", ".", "5">>))
  /\ rate["boot"] = IntNum(25500)
  /\ sheet["C11"] = <<"1", "6", "5", "7", "5", "1", "2", "7", "5", "0">>
  /\ sheet["C10"] = <<"6", "3", "7", "5", "0">>

\* run r is past the ETF job and the response it got carried closes
EtfOver(r) ==
  /\ EtfUsable(inp[r].etf)
  /\ <<"found", "etf">> \in ev[r]
  /\ pc[r] # "e_sink"

LastClose(r) == inp[r].etf.c[Len(inp[r].etf.c)]

\* C9 as stated: the ETF job writes the last close of the series, and no
\* other value, exactly once to E18.
C9_LastCloseWritten ==
  \A r \in Runs :
    EtfOver(r) =>
      /\ Cardinality(Writes(r, "E18")) = 1
      /\ \A k \in Writes(r, "E18") : sent[r][k][2] = SheetText(ToText(LastClose(r)))

\* C9: the ETF job makes exactly one update of E18; its value is the last
\* close of the series when that is 1000 or more, and 1000 times the last
\* close when it is below 1000 ([35990, 36010, 36050] gives 36050).
C9_LastCloseScaledWritten ==
  \A r \in Runs :
    EtfOver(r) =>
      /\ Cardinality(Writes(r, "E18")) = 1
      /\ \A k \in Writes(r, "E18") :
           /\ ToNumber(LastClose(r)).k = "num" /\ ~ToNumber(LastClose(r)).neg
                /\ ToNumber(LastClose(r)).i >= 1000
                => sent[r][k][2] = SheetText(ToText(LastClose(r)))
           /\ ToNumber(LastClose(r)).k = "num" /\ ToNumber(LastClose(r)).i < 1000
                => sent[r][k][2] = SheetText(ToText(Round(Times(LastClose(r), IntNum(1000)))))
           /\ inp[r].etf.c = <<IntNum(35990), IntNum(36010), IntNum(36050)>>
                => sent[r][k][2] = <<"3", "6", "0", "5", "0">>

\* C9 witness: the series [35990, 36010, 36050] was answered and E18 holds
\* 36050.
C9_Witness ==
  /\ EtfOver("boot")
  /\ inp["boot"].etf.c = <<IntNum(35990), IntNum(36010), IntNum(36050)>>
  /\ sheet["E18"] = <<"3", "6", "0", "5", "0">>
  /\ Cardinality(Writes("boot", "E18")) = 1

\* the digits of t, in order
DigitsOnly(t) == SelectSeq(t, IsDigit)

\* t is a price text: digits with ',' and '.' between them
PriceText(t) ==
  /\ \A k \in 1..Len(t) : IsDigit(t[k]) \/ t[k] \in {",", "."}
  /\ DigitsOnly(t) # <<>>

\* the cell text the gold adapter extracted in run r
GoldRaw(r) == GoldEvaluate(inp[r].gold)

\* C10: the value the gold adapter sends to E2 is the extracted text with
\* every ',' and '.' removed: the same digits in the same order, hence the
\* same integer ("36.000", "36,000" and "36000" all give 36000).
C10_SeparatorsStripped ==
  \A r \in Runs :
    (/\ <<"found", "gold">> \in ev[r] /\ pc[r] \notin {"g_eval", "g_sink"}
     /\ GoldRaw(r).k = "str" /\ PriceText(GoldRaw(r).s)) =>
      /\ Cardinality(Writes(r, "E2")) = 1
      /\ \A k \in Writes(r, "E2") :
           /\ sent[r][k][2] = DigitsOnly(GoldRaw(r).s)
           /\ AllDigits(sent[r][k][2])
           /\ GoldRaw(r).s \in {T36d000, T36c000, T36000}
                => DigitsVal(sent[r][k][2]) = 36000

\* C10 witness: the gold cell read "1,000.000" and E2 was sent 1000000.
C10_Witness ==
  /\ GoldRaw("boot") = Str(T1c000d000)
  /\ \E k \in Writes("boot", "E2") : DigitsVal(sent["boot"][k][2]) = 1000000

\* run r holds the ETF price it is about to send, computed from a numeric,
\* non-negative last close
EtfHeld(r) ==
  /\ pc[r] = "e_sink"
  /\ LastClose(r).k = "num" /\ ~LastClose(r).neg

\* the last close of run r in units of 1/10000
LastCloseTenThousandths(r) == LastClose(r).i * 10000 + LastClose(r).f

GoldNoMatch(r) ==
  /\ <<"none", "gold">> \in ev[r]
  /\ \A k \in 1..Len(inp[r].gold) : ~inp[r].gold[k].htv /\ ~inp[r].gold[k].nt

\* the startup pass, once over, has started all three jobs
AllStarted == pc["boot"] = "done" => started["boot"] = <<"gold", "etf", "crypto">>

\* C12: when the rendered gold page has no row naming an accepted label, the
\* gold adapter reports not-found and makes no update of E2 in that run, the
\* job does not throw, and in the startup pass the ETF and crypto jobs are
\* still started.
C12_NotFoundSkipsOnlyGold ==
  \A r \in Runs :
    GoldNoMatch(r) =>
      /\ ~Wrote(r, "E2")
      /\ pc[r] # "g_sink"
      /\ outcome[r] # "threw"
      /\ (r = "boot" => AllStarted)

\* C13: when the marker of a rendered page never appears (gold: 'table';
\* USDT: a span showing 'VND'), the run makes no update of that source's cell,
\* the job does not throw, and in the startup pass the later jobs are still
\* started.
C13_TimeoutSkipsAndContinues ==
  \A r \in Runs :
    /\ <<"fail", "g_wait">> \in ev[r] =>
         /\ ~Wrote(r, "E2")
         /\ outcome[r] # "threw"
         /\ (r = "boot" => AllStarted)
    /\ <<"fail", "u_wait">> \in ev[r] =>
         /\ ~Wrote(r, "C9")
         /\ outcome[r] # "threw"

\* the ETF response of run r lacks a body, data, or a non-empty close series
EtfEmpty(r) ==
  \/ inp[r].etf.k \in {"none", "nodata", "noc"}
  \/ inp[r].etf.k = "series" /\ Len(inp[r].etf.c) = 0

\* a ticker response without body or without data
TickerEmpty(t) == t.k \in {"none", "nodata"}

\* C14: a REST adapter whose response has no body, no data, or (ETF) no or an
\* empty close series ends with the empty-response outcome: it makes no
\* update of its cell in that run and returns without throwing, and the run
\* goes on to what follows the adapter.
C14_EmptyResponseSkips ==
  \A r \in Runs :
    /\ EtfEmpty(r) =>
         /\ <<"empty", "etf">> \in ev[r] /\ <<"found", "etf">> \notin ev[r]
         /\ ~Wrote(r, "E18")
         /\ pc[r] \notin {"e_get", "e_sink"}
         /\ outcome[r] # "threw"
         /\ (r = "boot" => started[r] = <<"gold", "etf", "crypto">>)
    /\ TickerEmpty(inp[r].paxg) =>
         /\ <<"empty", "paxg">> \in ev[r] /\ <<"found", "paxg">> \notin ev[r]
         /\ ~Wrote(r, "C10")
         /\ pc[r] \in {"b_get", "b_sink", "done"}
         /\ outcome[r] # "threw"
    /\ TickerEmpty(inp[r].btc) =>
         /\ <<"empty", "btc">> \in ev[r] /\ <<"found", "btc">> \notin ev[r]
         /\ ~Wrote(r, "C11")
         /\ pc[r] = "done" /\ outcome[r] = "returned"

\* C14 witness: the startup pass is over; PAXG answered without data and BTC
\* without a body, the USDT cell was updated, C10 and C11 were not.
C14_Witness ==
  /\ pc["boot"] = "done"
  /\ inp["boot"].paxg.k = "nodata" /\ inp["boot"].btc.k = "none"
  /\ Wrote("boot", "C9") /\ ~Wrote("boot", "C10") /\ ~Wrote("boot", "C11")

\* C14 witness for the ETF: the series came back empty and the crypto job
\* was started.
C14_WitnessEtf ==
  /\ inp["boot"].etf = EtfResp("series", <<>>)
  /\ pc["boot"] = "u_launch"
  /\ ~Wrote("boot", "E18")

\* C15: a raw reading that is no valid number leads to no update of its
\* source's cell in that run: a gold cell text that is not digits and
\* separators, an ETF last close that is not a number, a ticker price that is
\* missing or not numeric, a USDT text that is not numeric.
C15_NotNumericNotWritten ==
  \A r \in Runs :
    /\ (GoldRaw(r).k = "str" /\ ~PriceText(GoldRaw(r).s)) => ~Wrote(r, "E2")
    /\ (EtfUsable(inp[r].etf) /\ LastClose(r).k # "num") => ~Wrote(r, "E18")
    /\ (TickerUsable(inp[r].paxg) /\ ~PricedTicker(inp[r].paxg)) => ~Wrote(r, "C10")
    /\ (TickerUsable(inp[r].btc) /\ ~PricedTicker(inp[r].btc)) => ~Wrote(r, "C11")
    /\ UsdtEvaluate(inp[r].usdt).v.k = "nan" => ~Wrote(r, "C9")

\* the last updateSheetCell call of run r in the next state
LastSent(r) == sent'[r][Len(sent'[r])]

\* C16: every step in which a run calls updateSheetCell leaves the sheet
\* either untouched (the call failed) or with exactly the target cell set to
\* the text sent, every other cell as it was and no cell added; when the
\* cell already holds that text the sheet does not change at all, so a second
\* identical write leaves the state of the first.
C16_OverwriteIdempotent ==
  [][\A r \in Runs :
       Len(sent'[r]) = Len(sent[r]) + 1 =>
         /\ sheet' = sheet \/ sheet' = [sheet EXCEPT ![LastSent(r)[1]] = LastSent(r)[2]]
         /\ sheet[LastSent(r)[1]] = LastSent(r)[2] => sheet' = sheet
         /\ DOMAIN sheet' = Cells]_vars

\* C16 witness: the startup pass and a cron run of the gold job both sent the
\* same text to E2, and E2 holds that text once.
C16_Witness ==
  /\ pc["boot"] \notin GoldPcs /\ pc["cGold"] = "done"
  /\ Wrote("boot", "E2") /\ Wrote("cGold", "E2")
  /\ sent["cGold"] = <<<<"E2", <<"3", "6", "0", "0", "0">>>>>>
  /\ \E k \in Writes("boot", "E2") : sent["boot"][k] = sent["cGold"][1]
  /\ sheet["E2"] = <<"3", "6", "0", "0", "0">>

\* C17: whenever onModuleDestroy has been called, in whatever state and
\* however often, no call threw and the last call left no browser alive.
C17_DestroySafe ==
  destroy.n > 0 => ~destroy.threw /\ destroy.left = {}

\* run r's gold adapter has evaluated its page and is past its update
GoldEvaluated(r) ==
  \/ <<"found", "gold">> \in ev[r] /\ pc[r] # "g_sink"
  \/ <<"none", "gold">> \in ev[r]

\* the rows of the page that name an accepted label, and those of them with
\* at least three cells
Matching(rows) == {k \in 1..Len(rows) : rows[k].htv \/ rows[k].nt}

Usable(rows) == {k \in Matching(rows) : Len(rows[k].cells) >= 3}

First(S) == CHOOSE k \in S : \A j \in S : k <= j

\* run r made exactly one update of E2 and its text is t
OnlyGoldWrite(r, t) ==
  /\ Cardinality(Writes(r, "E2")) = 1
  /\ \A k \in Writes(r, "E2") : sent[r][k][2] = t

\* what the gold adapter sends for the cell text t
GoldSent(t) == SelectSeq(Trim(t), LAMBDA c : c \notin {",", "."})

\* C18 as stated: the first row naming an accepted label is authoritative;
\* the value written is taken from its second cell and no later row is used.
C18_FirstMatchAuthoritative ==
  \A r \in Runs :
    (GoldEvaluated(r) /\ Matching(inp[r].gold) # {}) =>
      LET row == inp[r].gold[First(Matching(inp[r].gold))]
      IN  IF Len(row.cells) >= 2 /\ Trim(row.cells[2]) # <<>>
          THEN OnlyGoldWrite(r, GoldSent(row.cells[2]))
          ELSE ~Wrote(r, "E2")

\* C18: the first row that names an accepted label and has at least three
\* cells is authoritative: the value written is taken from its second cell,
\* whatever rows follow; a matching row with fewer cells is passed over, and
\* with no such row nothing is written.
C18_FirstUsableMatchAuthoritative ==
  \A r \in Runs :
    GoldEvaluated(r) =>
      IF Usable(inp[r].gold) = {}
      THEN ~Wrote(r, "E2") /\ <<"none", "gold">> \in ev[r]
      ELSE LET row == inp[r].gold[First(Usable(inp[r].gold))]
           IN  IF Trim(row.cells[2]) # <<>>
               THEN OnlyGoldWrite(r, GoldSent(row.cells[2]))
               ELSE ~Wrote(r, "E2")

\* C18 witness: the page had a 'Nhẫn Tròn 9999' row reading 36,000 before a
\* 'Hưng Thịnh Vượng' row reading 1.000.000, and E2 was sent 36000.
C18_Witness ==
  /\ Cardinality(Usable(inp["boot"].gold)) = 2
  /\ inp["boot"].gold[First(Usable(inp["boot"].gold))].cells[2] = T36c000
  /\ OnlyGoldWrite("boot", T36000)

\* the awaits of a run in program order
PcOrder ==
  <<"idle", "start", "g_launch", "g_newPage", "g_goto", "g_wait", "g_eval", "g_sink",
    "g_close", "e_get", "e_sink", "u_launch", "u_newPage", "u_goto", "u_wait", "u_eval",
    "u_sink", "u_pclose", "u_bclose", "p_get", "p_sink", "b_get", "b_sink", "h_get",
    "done">>

Rank(p) == CHOOSE k \in 1..Len(PcOrder) : PcOrder[k] = p

\* in run r the adapter `src` normalized a value and is past its update
Normalized(r, src, sinkPc) == <<"found", src>> \in ev[r] /\ pc[r] # sinkPc

\* at most one update per cell in a run, exactly one for each normalized
\* value, and no browser of an adapter whose launch failed
OncePerRun ==
  \A r \in Runs :
    /\ \A c \in Cells : Cardinality(Writes(r, c)) <= 1
    /\ Normalized(r, "gold", "g_sink") => Cardinality(Writes(r, "E2")) = 1
    /\ Normalized(r, "etf", "e_sink") => Cardinality(Writes(r, "E18")) = 1
    /\ Normalized(r, "usdt", "u_sink") => Cardinality(Writes(r, "C9")) = 1
    /\ Normalized(r, "paxg", "p_sink") => Cardinality(Writes(r, "C10")) = 1
    /\ Normalized(r, "btc", "b_sink") => Cardinality(Writes(r, "C11")) = 1
    /\ <<"fail", "g_launch">> \in ev[r] => Bid(r, "gold") \notin alive
    /\ <<"fail", "u_launch">> \in ev[r] => Bid(r, "usdt") \notin alive

\* within one firing a run only moves forward through its awaits
NoRetry ==
  \A r \in Runs :
    (fid'[r] = fid[r] /\ pc'[r] # pc[r]) => Rank(pc'[r]) > Rank(pc[r])

\* C19: within one run no await is reached twice, so each adapter is
\* attempted at most once and nothing is retried after a failure; each cell is
\* updated at most once, exactly once when its value was normalized; a failed
\* browser launch is not repeated in that run.
C19_OnceAndNoRetry == []OncePerRun /\ [][NoRetry]_vars

\* C19 witness: the startup pass is over; the launch for the USDT page failed,
\* no browser is left, and the gold and ETF cells had one update each.
C19_Witness ==
  /\ pc["boot"] = "done"
  /\ <<"fail", "u_launch">> \in ev["boot"]
  /\ alive = {}
  /\ Cardinality(Writes("boot", "E2")) = 1 /\ Cardinality(Writes("boot", "E18")) = 1
  /\ ~Wrote("boot", "C9") /\ ~Wrote("boot", "C10") /\ ~Wrote("boot", "C11")

\* the awaits at which an update<X>Cell call is made, and the cell of each
SinkPcs == {"g_sink", "e_sink", "u_sink", "p_sink", "b_sink"}

CellOf(p) ==
  CASE p = "g_sink" -> "E2" [] p = "e_sink" -> "E18" [] p = "u_sink" -> "C9"
    [] p = "p_sink" -> "C10" [] p = "b_sink" -> "C11"

\* the cells of the sources of a job
JobCells(j) ==
  CASE j = "gold" -> {"E2"} [] j = "etf" -> {"E18"}
    [] j = "crypto" -> {"C9", "C10", "C11"} [] OTHER -> {}

\* the five targets are distinct, and every update a cron run has made
\* targets a cell of its own job
TargetsFixed ==
  /\ Cardinality({CellOf(p) : p \in SinkPcs}) = 5
  /\ \A r \in CronRuns : \A k \in 1..Len(sent[r]) : sent[r][k][1] \in JobCells(JobOf(r))

\* a step changes the sheet only by the update of the adapter that takes it,
\* in that adapter's cell; a step of a cron run changes no cell outside its job
FrameStep ==
  /\ \A r \in Runs :
       (fid'[r] = fid[r] /\ sent'[r] # sent[r]) =>
         /\ pc[r] \in SinkPcs
         /\ sent'[r] = Append(sent[r], <<CellOf(pc[r]), LastSent(r)[2]>>)
         /\ \A c \in Cells \ {CellOf(pc[r])} : sheet'[c] = sheet[c]
  /\ sheet' # sheet => \E r \in Runs : fid'[r] = fid[r] /\ sent'[r] # sent[r]
  /\ \A r \in CronRuns :
       pc'[r] # pc[r] => \A c \in Cells \ JobCells(JobOf(r)) : sheet'[c] = sheet[c]

InFlight(r) == pc[r] \notin {"start", "idle", "done"}

\* C21: every started job run eventually terminates, even when an external
\* service never responds, because every HTTP GET and every page operation is
\* bounded by a timeout; stated of the cron runs of the ETF job and of the
\* health check, which the event loop resumes whenever their GET has settled.
C21_EveryRunTerminates ==
  \A r \in LiveRuns : InFlight(r) ~> (pc[r] = "done")

\* the text of a number below 0
NegativeText(t) == Len(t) > 0 /\ t[1] = "-"

\* C22: every amount sent to the sink is 0 or more, whatever the sources
\* answered: no update of any cell carries a value below 0, also after a
\* negative close, ticker price or exchange rate.
C22_NoNegativeWritten ==
  \A r \in Runs : \A k \in 1..Len(sent[r]) : ~NegativeText(sent[r][k][2])

\* the amount the Binance page shows: the text after the '=' of the first span
\* that carries the currency sign and 'VND', without sign, unit and blanks
UsdtShown(spans) ==
  LET hits == {k \in 1..Len(spans) :
                 Includes(spans[k], <<"V", "N", "D">>) /\ Includes(spans[k], <<"dong">>)}
      span == spans[CHOOSE k \in hits : \A j \in hits : k <= j]
      piece == SplitSecond(RemoveFirstSub(RemoveAll(span, "dong"), <<"V", "N", "D">>))
  IN  IF hits # {} /\ piece.k = "str" THEN Trim(piece.s) ELSE <<>>

\* C23: both page adapters strip the separators the same way: the gold
\* adapter and the USDT adapter each remove every '.' and every ',' from the
\* text they extracted before it becomes a number, so the value they hold for
\* the sink is the number made of the text's digits alone.
C23_BothAdaptersStripAll ==
  \A r \in Runs :
    /\ (pc[r] = "g_sink" /\ GoldRaw(r).k = "str" /\ PriceText(GoldRaw(r).s)) =>
         val[r] = Str(DigitsOnly(GoldRaw(r).s))
    /\ (pc[r] = "u_sink" /\ PriceText(UsdtShown(inp[r].usdt))) =>
         val[r] = IntNum(DigitsVal(DigitsOnly(UsdtShown(inp[r].usdt))))

\* the local browser of run r is one that run r launched in its current run
OwnLocal ==
  \A r \in Runs : br[r] # NoBrowser => br[r][1] = r /\ br[r][3] = fid[r]

\* the browsers a step closes, and those whose page it opens or closes
Touched == (alive \ alive') \cup (pages \ pages') \cup (pages' \ pages)

\* a step touches only the browser launched by the run that takes the step
OwnSteps ==
  \A b \in Touched :
    /\ \E r \in Runs : pc'[r] # pc[r]
    /\ \A r \in Runs : pc'[r] # pc[r] => b = br[r] /\ b[1] = r /\ b[3] = fid[r]

\* C24: however the runs interleave, a run opens its page on, and closes, only
\* the browser it launched itself, never one launched by another run, although
\* getBrowser overwrites this.browser at every call.
C24_OwnBrowserOnly == []OwnLocal /\ [][OwnSteps]_vars

\* C24 witness: the crypto job of the startup pass and its cron run overlapped;
\* the cron run's launch overwrote this.browser, the startup pass has closed
\* its own browser, and the cron run's browser and page are still open.
C24_Witness ==
  /\ pc["boot"] = "p_get"
  /\ br["boot"] = <<"boot", "usdt", 0>> /\ br["boot"] \notin alive
  /\ browser = br["cCrypto"] /\ browser # br["boot"]
  /\ br["cCrypto"] \in alive /\ br["cCrypto"] \in pages

\* where run r stands after the update it is about to make has succeeded
AfterSink(r) ==
  CASE pc[r] = "g_sink" -> "g_close"
    [] pc[r] = "e_sink" -> IF r = "boot" THEN "u_launch" ELSE "done"
    [] pc[r] = "u_sink" -> "u_pclose"
    [] pc[r] = "p_sink" -> "b_get"
    [] OTHER            -> "done"

\* a step in which an update of the sheet fails leaves the run where a
\* successful update leaves it, with the value it held, and throws nothing
SinkFailureSwallowed ==
  \A r \in Runs : \A c \in Cells :
    (<<"sinkfail", c>> \in ev'[r] /\ <<"sinkfail", c>> \notin ev[r]) =>
      /\ pc'[r] = AfterSink(r)
      /\ val'[r] = val[r]
      /\ outcome'[r] # "threw"

\* nothing but updates of the sheet failed in the crypto job of run r
OnlySinkFailed(r) ==
  \A p \in UsdtPcs \cup {"p_get", "b_get"} : <<"fail", p>> \notin ev[r]

\* the ticker t has a price whose product with a rate is not 0
NonZeroTicker(t) == PricedTicker(t) /\ ~IsZero(NumberOfText(t.price.s))

\* after the update of C9 failed, the run got its rate and sent the
\* conversion of every ticker price it was answered
ConvertedAfterSinkFailure ==
  \A r \in Runs :
    (pc[r] = "done" /\ <<"sinkfail", "C9">> \in ev[r] /\ OnlySinkFailed(r)) =>
      /\ outcome[r] = "returned"
      /\ rate[r] = OwnRate(r) /\ ~RateMissing(rate[r])
      /\ NonZeroTicker(inp[r].paxg) =>
           /\ \E k \in Writes(r, "C10") :
                sent[r][k][2] = ConvertedText(inp[r].paxg.price, rate[r])
           /\ <<"sinkfail", "C10">> \notin ev[r] =>
                sheet["C10"] = ConvertedText(inp[r].paxg.price, rate[r])
      /\ NonZeroTicker(inp[r].btc) =>
           /\ \E k \in Writes(r, "C11") :
                sent[r][k][2] = ConvertedText(inp[r].btc.price, rate[r])
           /\ <<"sinkfail", "C11">> \notin ev[r] =>
                sheet["C11"] = ConvertedText(inp[r].btc.price, rate[r])

\* C25: a failed update of the sheet never reaches the adapter that asked for
\* it: the adapter goes on as after a successful update; when the update of
\* the USDT cell (C9) fails, crawlUSDTPrice still returns the rate and the
\* PAXG and BTC conversions of that run are made and sent to C10 and C11.
C25_SinkFailureSwallowed ==
  []ConvertedAfterSinkFailure /\ [][SinkFailureSwallowed]_vars

\* C25 witness: the startup pass is over; its update of C9 failed and left the
\* cell blank, the rate is 25500, and C10 and C11 hold the conversions of 2.5
\* and 65000.5.
C25_Witness ==
  /\ pc["boot"] = "done"
  /\ <<"sinkfail", "C9">> \in ev["boot"]
  /\ sheet["C9"] = Blank
  /\ rate["boot"] = IntNum(25500)
  /\ sheet["C10"] = <<"6", "3", "7", "5", "0">>
  /\ sheet["C11"] = <<"1", "6", "5", "7", "5", "1", "2", "7", "5", "0">>

====
